---- MODULE Spec2Model ----
(***************************************************************************)
(* Model of the bounding-box annotation tool (App.tsx, ImageSelector.tsx). *)
(*                                                                         *)
(* One action is one event handler together with the React render and the  *)
(* effects that run after it: the history -> selections sync effect of     *)
(* App (App.tsx 212-216), the selections -> internalSelections sync effect *)
(* of ImageSelector (ImageSelector.tsx 68-70) and the imageSrc effect      *)
(* (ImageSelector.tsx 353-358).  Events are handled one at a time.         *)
(*                                                                         *)
(* Coordinates are integers of the image's natural pixel grid.  History    *)
(* indices are 0-based as in the code; history[historyIndex] of the code   *)
(* is history[historyIndex + 1] here.                                      *)
(***************************************************************************)
EXTENDS Integers, Sequences, FiniteSets, TLC

\* ------------------------------------------------------------------ bounds
\* natural size of the loaded image
ImageWidth == 3
ImageHeight == 2
\* most entries the transient list may hold (a draw is not started beyond it)
MaxSelections == 1
\* longest list a caller hands to onSelectionsChange in the App specification
MaxListLen == 2
\* most snapshots the history holds in Spec and SpecGesture (no commit is
\* asked for that would push beyond it)
MaxHistory == 3
\* most entries of the transient list in SpecPair
MaxPairSelections == 2
\* most snapshots the history holds in SpecLock
MaxLockHistory == 5
\* most image loads (FileReader / Drive fetch) in flight at once
MaxPending == 2
\* coordinate steps per pixel of the boxes in SpecExport
Subpixel == 2
\* last reading of the clock in SpecIds
MaxNow == 2

\* ------------------------------------------------------------- data model
Point(px, py) == [x |-> px, y |-> py]

NoId == -1
DragActions == {"draw", "move", "n-resize", "e-resize", "s-resize", "w-resize"}
ResizeActions == {"n-resize", "e-resize", "s-resize", "w-resize"}

Min(a, b) == IF a <= b THEN a ELSE b
Max(a, b) == IF a >= b THEN a ELSE b
Abs(a) == IF a >= 0 THEN a ELSE -a

clampX(v) == Max(0, Min(v, ImageWidth))
clampY(v) == Max(0, Min(v, ImageHeight))

minX(s) == Min(s.start.x, s.end.x)
maxX(s) == Max(s.start.x, s.end.x)
minY(s) == Min(s.start.y, s.end.y)
maxY(s) == Max(s.start.y, s.end.y)
width(s) == Abs(s.start.x - s.end.x)
height(s) == Abs(s.start.y - s.end.y)

\* inclusive containment on the normalized rectangle
containsPoint(s, p) ==
    /\ p.x >= minX(s) /\ p.x <= maxX(s)
    /\ p.y >= minY(s) /\ p.y <= maxY(s)

Indices(list) == 1..Len(list)

\* index of the top-most selection containing the point, 0 if none
findSelectionAtPoint(list, p) ==
    LET hits == {i \in Indices(list) : containsPoint(list[i], p)}
    IN  IF hits = {} THEN 0 ELSE CHOOSE i \in hits : \A j \in hits : j <= i

\* Array.prototype.findIndex(s => s.id === id): first match, 0 if none
findIndex(list, id) ==
    LET hits == {i \in Indices(list) : list[i].id = id}
    IN  IF hits = {} THEN 0 ELSE CHOOSE i \in hits : \A j \in hits : i <= j

\* ------------------------------------------------------------------ state
VARIABLES
    imageSrc,            \* App: TRUE when an image is shown (imageSrc !== null)
    selections,          \* App: the committed Selection Store
    history,             \* App: sequence of snapshots
    historyIndex,        \* App: cursor, 0-based
    pendingLoads,        \* image loads in flight: the (history, historyIndex)
                         \* each onload callback closed over
    imageDimensions,     \* App: {} (null) or {[naturalWidth, naturalHeight]};
                         \* set by the load event of the img element, until
                         \* which the element has no natural size
    clipboard,           \* the text handleCopy wrote last, {} if none
    internalSelections,  \* ImageSelector: the transient list
    dragAction,          \* ImageSelector: "null" or a DragAction
    dragStartPoint,      \* ImageSelector: {} (null) or {point}
    activeSelectionId,   \* ImageSelector: NoId (null) or an id
    initialSelection,    \* ImageSelector: {} (null) or {selection}
    loupeVisible,        \* ImageSelector
    now,                 \* the clock Date.now() reads (it advances in
                         \* SpecIds and is held still elsewhere)
    lastOp               \* the handler that ran last and the branch it took

vars == <<imageSrc, selections, history, historyIndex, pendingLoads,
          imageDimensions, clipboard, internalSelections, dragAction, dragStartPoint, activeSelectionId,
          initialSelection, loupeVisible, now, lastOp>>

appVars == <<imageSrc, selections, history, historyIndex, pendingLoads,
            imageDimensions, clipboard>>
gestureVars == <<dragAction, dragStartPoint, activeSelectionId,
                 initialSelection, loupeVisible>>

\* what the load event of the img element reports
naturalSize == [naturalWidth |-> ImageWidth, naturalHeight |-> ImageHeight]

\* getRelativeCoords clamps the pointer to the displayed image and scales it
\* to natural pixels: every pointer position lands on the image.  While the
\* element has no natural size the scale is 0 and every position is (0, 0).
getRelativeCoords ==
    IF imageDimensions = {} THEN {Point(0, 0)}
    ELSE {Point(px, py) : px \in 0..ImageWidth, py \in 0..ImageHeight}

Init ==
    /\ imageSrc = FALSE
    /\ selections = <<>>
    /\ history = << <<>> >>
    /\ historyIndex = 0
    /\ pendingLoads = <<>>
    /\ imageDimensions = {}
    /\ clipboard = {}
    /\ internalSelections = <<>>
    /\ dragAction = "null"
    /\ dragStartPoint = {}
    /\ activeSelectionId = NoId
    /\ initialSelection = {}
    /\ loupeVisible = FALSE
    /\ now = 0
    /\ lastOp = "init"

\* canUndo and canRedo of a render with history h and cursor i
canUndoAt(i) == i > 0
canRedoAt(h, i) == i < Len(h) - 1
canUndo == canUndoAt(historyIndex)
canRedo == canRedoAt(history, historyIndex)

\* ---------------------------------------------------------- history manager
\* history.slice(0, n)
slice(h, n) == SubSeq(h, 1, Min(n, Len(h)))

\* (variant: the equality test is missing)
commitSelections_AlwaysPush(next, prev, h, i, curHistory, curIndex) ==
    LET newHistory == Append(slice(h, i + 1), next)
    IN  [selections |-> next, history |-> newHistory,
         historyIndex |-> Len(newHistory) - 1]
\* (variant: the cursor is set to the new length)
commitSelections_CursorPastEnd(next, prev, h, i, curHistory, curIndex) ==
    IF next = prev
    THEN [selections |-> prev, history |-> curHistory, historyIndex |-> curIndex]
    ELSE LET newHistory == Append(slice(h, i + 1), next)
         IN  [selections |-> next, history |-> newHistory,
              historyIndex |-> Len(newHistory)]
\* The updater of commitSelections.  h and i are the history and cursor the
\* callback closed over; prev is the store when the updater runs.  The result
\* is the new store, history and cursor.
commitSelections(next, prev, h, i, curHistory, curIndex) ==
    IF next = prev
    THEN [selections |-> prev, history |-> curHistory, historyIndex |-> curIndex]
    ELSE LET newHistory == Append(slice(h, i + 1), next)
         IN  [selections |-> next, history |-> newHistory,
              historyIndex |-> Len(newHistory) - 1]

\* (variant: the effect is missing)
syncSelections_NoEffect(h, i, sel) == sel
\* App's effect: the store follows the snapshot at the cursor.  (Outside the
\* history history[historyIndex] is undefined; no run of the program gets
\* there, and the store is left as it is.)
syncSelections(h, i, sel) ==
    IF i + 1 \in DOMAIN h /\ h[i + 1] # sel THEN h[i + 1] ELSE sel

\* ImageSelector's effect: the transient list follows the store whenever the
\* store is replaced by a new array
syncInternal(newSel, oldSel, internal) ==
    IF newSel # oldSel THEN newSel ELSE internal

\* commit through the callback of the current render, then the effects
Commit(next) ==
    LET r == commitSelections(next, selections, history, historyIndex,
                              history, historyIndex)
    IN  /\ history' = r.history
        /\ historyIndex' = r.historyIndex
        /\ selections' = syncSelections(r.history, r.historyIndex, r.selections)
        /\ internalSelections' = syncInternal(selections', selections, internalSelections)

\* ----------------------------------------------------------------- gestures
TheOne(S) == CHOOSE e \in S : TRUE

\* the box a move event produces from the frozen snapshot: the translation is
\* clamped, width and height are those of the snapshot
moveSelection(init, dx, dy) ==
    LET w == width(init)
        h == height(init)
        x0 == minX(init) + dx
        y0 == minY(init) + dy
        x1 == IF x0 < 0 THEN 0 ELSE x0
        y1 == IF y0 < 0 THEN 0 ELSE y0
        x2 == IF x1 + w > ImageWidth THEN ImageWidth - w ELSE x1
        y2 == IF y1 + h > ImageHeight THEN ImageHeight - h ELSE y1
        deltaX == x2 - minX(init)
        deltaY == y2 - minY(init)
    IN  [init EXCEPT !.start = Point(init.start.x + deltaX, init.start.y + deltaY),
                     !.end = Point(init.end.x + deltaX, init.end.y + deltaY)]

MIN_SIZE == 1

\* (variant: the dragged edge is clamped to the image only, no minimum extent)
resizeSelection_NoMinimum(init, action, dx, dy) ==
    CASE action = "n-resize" -> [init EXCEPT !.start.y = clampY(init.start.y + dy)]
      [] action = "s-resize" -> [init EXCEPT !.end.y = clampY(init.end.y + dy)]
      [] action = "w-resize" -> [init EXCEPT !.start.x = clampX(init.start.x + dx)]
      [] action = "e-resize" -> [init EXCEPT !.end.x = clampX(init.end.x + dx)]
      [] OTHER -> init
\* the box a move event produces while resizing: only the dragged edge moves
resizeSelection(init, action, dx, dy) ==
    LET iStart == init.start
        iEnd == init.end
    IN  CASE action = "n-resize" ->
               LET ny == clampY(iStart.y + dy)
               IN  [init EXCEPT !.start.y =
                        IF ny > iEnd.y - MIN_SIZE THEN iEnd.y - MIN_SIZE ELSE ny]
          [] action = "s-resize" ->
               LET ny == clampY(iEnd.y + dy)
               IN  [init EXCEPT !.end.y =
                        IF ny < iStart.y + MIN_SIZE THEN iStart.y + MIN_SIZE ELSE ny]
          [] action = "w-resize" ->
               LET nx == clampX(iStart.x + dx)
               IN  [init EXCEPT !.start.x =
                        IF nx > iEnd.x - MIN_SIZE THEN iEnd.x - MIN_SIZE ELSE nx]
          [] action = "e-resize" ->
               LET nx == clampX(iEnd.x + dx)
               IN  [init EXCEPT !.end.x =
                        IF nx < iStart.x + MIN_SIZE THEN iStart.x + MIN_SIZE ELSE nx]
          [] OTHER -> init

\* (variant: no guard on dragAction and dragStartPoint, the active box follows
\* the pointer as in a draw when no gesture is active)
performDrag_NoGuard(prevSelections, action, startPoint, activeId, init, currentPoint) ==
    LET activeSelectionIndex == findIndex(prevSelections, activeId)
    IN  IF ~imageSrc THEN prevSelections
        ELSE IF activeSelectionIndex = 0 THEN prevSelections
        ELSE IF action \in {"draw", "null"}
             THEN [prevSelections EXCEPT ![activeSelectionIndex].end =
                       Point(clampX(currentPoint.x), clampY(currentPoint.y))]
        ELSE IF init = {} \/ startPoint = {} THEN prevSelections
        ELSE IF prevSelections[activeSelectionIndex].locked THEN prevSelections
        ELSE LET dx == currentPoint.x - TheOne(startPoint).x
                 dy == currentPoint.y - TheOne(startPoint).y
             IN  [prevSelections EXCEPT ![activeSelectionIndex] =
                      IF action = "move"
                      THEN moveSelection(TheOne(init), dx, dy)
                      ELSE resizeSelection(TheOne(init), action, dx, dy)]
\* the list performDrag hands to setInternalSelections
performDrag(prevSelections, action, startPoint, activeId, init, currentPoint) ==
    LET activeSelectionIndex == findIndex(prevSelections, activeId)
    IN  IF action = "null" \/ startPoint = {} \/ ~imageSrc THEN prevSelections
        ELSE IF activeSelectionIndex = 0 THEN prevSelections
        ELSE IF action = "draw"
             THEN [prevSelections EXCEPT ![activeSelectionIndex].end =
                       Point(clampX(currentPoint.x), clampY(currentPoint.y))]
        ELSE IF init = {} THEN prevSelections
        ELSE IF prevSelections[activeSelectionIndex].locked THEN prevSelections
        ELSE LET dx == currentPoint.x - TheOne(startPoint).x
                 dy == currentPoint.y - TheOne(startPoint).y
             IN  [prevSelections EXCEPT ![activeSelectionIndex] =
                      IF action = "move"
                      THEN moveSelection(TheOne(init), dx, dy)
                      ELSE resizeSelection(TheOne(init), action, dx, dy)]

\* (variant: the selection is frozen as stored)
normalizedSelection_AsStored(s) == s
\* handleResizeHandleDown freezes the selection with start = top-left and
\* end = bottom-right
normalizedSelection(s) ==
    [s EXCEPT !.start = Point(minX(s), minY(s)), !.end = Point(maxX(s), maxY(s))]

\* (variant: a box is kept from extent 1 on)
keepOnRelease_FromOne(s) == width(s) >= 1 /\ height(s) >= 1
\* the filter of handleDragEnd
keepOnRelease(s) == width(s) > 1 /\ height(s) > 1
finalSelections(list) == SelectSeq(list, keepOnRelease)

\* a box of the transient list has an element on screen unless it is a point
\* and no draw is going on; the element is placed by the scale
\* clientWidth / naturalWidth, so without a natural size it has no place
rendered(s) ==
    /\ imageSrc
    /\ imageDimensions # {}
    /\ ~(width(s) = 0 /\ height(s) = 0 /\ dragAction # "draw")

\* (variant: the first rendered box over p takes the press)
pressTarget_Lowest(p) ==
    LET hits == {i \in Indices(internalSelections) :
                    rendered(internalSelections[i])
                    /\ containsPoint(internalSelections[i], p)}
    IN  IF hits = {} THEN 0 ELSE CHOOSE i \in hits : \A j \in hits : i <= j
\* the element a press at p lands on: the last rendered box over p, 0 if none
pressTarget(p) ==
    LET hits == {i \in Indices(internalSelections) :
                    rendered(internalSelections[i])
                    /\ containsPoint(internalSelections[i], p)}
    IN  IF hits = {} THEN 0 ELSE CHOOSE i \in hits : \A j \in hits : j <= i

\* a press on the image, outside every box on screen
handlePointerDown(point) ==
    /\ imageSrc
    /\ pressTarget(point) = 0
    /\ IF findSelectionAtPoint(internalSelections, point) # 0
       THEN /\ lastOp' = "press"
            /\ UNCHANGED <<internalSelections, gestureVars>>
       ELSE LET newSelection == [id |-> now, start |-> point, end |-> point,
                                 locked |-> FALSE]
            IN  /\ internalSelections' = Append(internalSelections, newSelection)
                /\ dragAction' = "draw"
                /\ dragStartPoint' = {point}
                /\ activeSelectionId' = newSelection.id
                /\ initialSelection' = {newSelection}
                /\ loupeVisible' = TRUE
                /\ lastOp' = "press"
    /\ UNCHANGED <<appVars, now>>

\* (variant: the lock is not looked at)
handleSelectionMouseDown_NoLockCheck(point) ==
    LET i == pressTarget(point)
        selection == internalSelections[i]
    IN  /\ i # 0
        /\ activeSelectionId' = selection.id
        /\ dragAction' = "move"
        /\ dragStartPoint' = {point}
        /\ initialSelection' = {selection}
        /\ loupeVisible' = loupeVisible
        /\ lastOp' = "press-box"
        /\ UNCHANGED <<appVars, internalSelections, now>>
\* a press on the body of the box that is on top at the pointer
handleSelectionMouseDown(point) ==
    LET i == pressTarget(point)
        selection == internalSelections[i]
    IN  /\ i # 0
        /\ IF selection.locked
           THEN /\ lastOp' = "press-box"
                /\ UNCHANGED gestureVars
           ELSE /\ activeSelectionId' = selection.id
                /\ dragAction' = "move"
                /\ dragStartPoint' = {point}
                /\ initialSelection' = {selection}
                /\ loupeVisible' = loupeVisible
                /\ lastOp' = "press-box"
        /\ UNCHANGED <<appVars, internalSelections, now>>

\* where the handle of an edge is: the middle of that edge, pulled onto the
\* image as getRelativeCoords does
handlePoint(s, action) ==
    LET midX == (minX(s) + maxX(s)) \div 2
        midY == (minY(s) + maxY(s)) \div 2
    IN  CASE action = "n-resize" -> Point(clampX(midX), clampY(minY(s)))
          [] action = "s-resize" -> Point(clampX(midX), clampY(maxY(s)))
          [] action = "w-resize" -> Point(clampX(minX(s)), clampY(midY))
          [] OTHER -> Point(clampX(maxX(s)), clampY(midY))

\* a press on one of the four handles of an active box
handleResizeHandleDown(i, action, point) ==
    LET selection == internalSelections[i]
    IN  /\ rendered(selection)
        /\ point = handlePoint(selection, action)
        /\ selection.id = activeSelectionId
        /\ IF selection.locked
           THEN /\ lastOp' = "press-handle"
                /\ UNCHANGED gestureVars
           ELSE /\ activeSelectionId' = selection.id
                /\ dragAction' = action
                /\ dragStartPoint' = {point}
                /\ initialSelection' = {normalizedSelection(selection)}
                /\ loupeVisible' = TRUE
                /\ lastOp' = "press-handle"
        /\ UNCHANGED <<appVars, internalSelections, now>>

\* (variant: every frame of a drag is committed)
handleMouseMove_CommitsFrames(point) ==
    /\ Commit(performDrag(internalSelections, dragAction, dragStartPoint,
                          activeSelectionId, initialSelection, point))
    /\ lastOp' = "move"
    /\ UNCHANGED <<imageSrc, pendingLoads, imageDimensions, clipboard,
                   gestureVars, now>>
\* a mouse or touch move event on the window
handleMouseMove(point) ==
    /\ internalSelections' =
           performDrag(internalSelections, dragAction, dragStartPoint,
                       activeSelectionId, initialSelection, point)
    /\ lastOp' = "move"
    /\ UNCHANGED <<appVars, gestureVars, now>>

\* (variant: the release also clears the active id)
handleDragEnd_ClearsActiveId ==
    /\ IF dragAction # "null"
       THEN /\ Commit(finalSelections(internalSelections))
            /\ dragAction' = "null"
            /\ dragStartPoint' = {}
            /\ initialSelection' = {}
            /\ loupeVisible' = FALSE
            /\ activeSelectionId' = NoId
            /\ lastOp' = "release"
       ELSE /\ lastOp' = "release"
            /\ UNCHANGED <<selections, history, historyIndex, internalSelections,
                           dragAction, dragStartPoint, initialSelection, loupeVisible,
                           activeSelectionId>>
    /\ UNCHANGED <<imageSrc, pendingLoads, imageDimensions, clipboard, now>>
\* a mouse up or touch end event on the window
handleDragEnd ==
    /\ IF dragAction # "null"
       THEN /\ Commit(finalSelections(internalSelections))
            /\ dragAction' = "null"
            /\ dragStartPoint' = {}
            /\ initialSelection' = {}
            /\ loupeVisible' = FALSE
            /\ lastOp' = "release"
       ELSE /\ lastOp' = "release"
            /\ UNCHANGED <<selections, history, historyIndex, internalSelections,
                           dragAction, dragStartPoint, initialSelection, loupeVisible>>
    /\ UNCHANGED <<imageSrc, pendingLoads, imageDimensions, clipboard,
                   activeSelectionId, now>>

\* a touchcancel event on the window: no listener is registered for it
touchcancel ==
    /\ lastOp' = "touch-cancel"
    /\ UNCHANGED <<appVars, internalSelections, gestureVars, now>>

\* ------------------------------------------------------- store and history
\* (variant: the undo skips a snapshot)
undoIndex_TwoBack(i) == IF canUndoAt(i) THEN Max(i - 2, 0) ELSE i
\* canUndo && setHistoryIndex(historyIndex - 1)
undoIndex(i) == IF canUndoAt(i) THEN i - 1 ELSE i
\* (variant: the redo is not guarded by canRedo)
redoIndex_Unguarded(h, i) == i + 1
\* canRedo && setHistoryIndex(historyIndex + 1)
redoIndex(h, i) == IF canRedoAt(h, i) THEN i + 1 ELSE i

handleUndo ==
    /\ historyIndex' = undoIndex(historyIndex)
    /\ history' = history
    /\ selections' = syncSelections(history', historyIndex', selections)
    /\ internalSelections' = syncInternal(selections', selections, internalSelections)
    /\ lastOp' = IF canUndo THEN "undo" ELSE "undo-noop"
    /\ UNCHANGED <<imageSrc, pendingLoads, imageDimensions, clipboard,
                   gestureVars, now>>

handleRedo ==
    /\ historyIndex' = redoIndex(history, historyIndex)
    /\ history' = history
    /\ selections' = syncSelections(history', historyIndex', selections)
    /\ internalSelections' = syncInternal(selections', selections, internalSelections)
    /\ lastOp' = IF canRedo THEN "redo" ELSE "redo-noop"
    /\ UNCHANGED <<imageSrc, pendingLoads, imageDimensions, clipboard,
                   gestureVars, now>>

ids(list) == {list[i].id : i \in Indices(list)}

\* (variant: the id is not compared)
toggled_Every(prev, id) ==
    [i \in Indices(prev) |-> [prev[i] EXCEPT !.locked = ~prev[i].locked]]
\* prev.map(sel => sel.id === id ? { ...sel, locked: !sel.locked } : sel)
toggled(prev, id) ==
    [i \in Indices(prev) |->
        IF prev[i].id = id THEN [prev[i] EXCEPT !.locked = ~prev[i].locked]
        ELSE prev[i]]

handleToggleLock(id) ==
    /\ id \in ids(selections)
    /\ Commit(toggled(selections, id))
    /\ lastOp' = "toggle"
    /\ UNCHANGED <<imageSrc, pendingLoads, imageDimensions, clipboard,
                   gestureVars, now>>

\* prev.filter(sel => sel.id !== id)
deleted(prev, id) ==
    LET Keep(sel) == sel.id # id
    IN  SelectSeq(prev, Keep)

handleDeleteSelection(id) ==
    /\ id \in ids(selections)
    /\ Commit(deleted(selections, id))
    /\ lastOp' = "delete"
    /\ UNCHANGED <<imageSrc, pendingLoads, imageDimensions, clipboard,
                   gestureVars, now>>

\* the Clear All button, shown while the store is not empty
onClearAll ==
    /\ imageSrc
    /\ Len(selections) > 0
    /\ Commit(<<>>)
    /\ activeSelectionId' = NoId
    /\ lastOp' = "clear"
    /\ UNCHANGED <<imageSrc, pendingLoads, imageDimensions, clipboard,
                   dragAction, dragStartPoint,
                   initialSelection, loupeVisible, now>>

\* (variant: the history is not reset)
handleReset_KeepsHistory ==
    /\ imageSrc' = FALSE
    /\ UNCHANGED <<history, historyIndex>>
    /\ selections' = syncSelections(history, historyIndex, <<>>)
    /\ internalSelections' = selections'
    /\ activeSelectionId' = NoId
    /\ lastOp' = "reset"
    /\ imageDimensions' = {}
    /\ UNCHANGED <<pendingLoads, clipboard, dragAction, dragStartPoint,
                   initialSelection, loupeVisible, now>>
\* Remove Image, or the end of a sign-out.  The new empty store is a new
\* array, so the transient list follows it; with no image the imageSrc effect
\* commits [] (equal to the store) and clears the active id.
handleReset ==
    LET emptyStore == <<>>
        emptyHistory == << <<>> >>
        r == commitSelections(<<>>, emptyStore, emptyHistory, 0, emptyHistory, 0)
    IN  /\ imageSrc' = FALSE
        /\ history' = r.history
        /\ historyIndex' = r.historyIndex
        /\ selections' = syncSelections(r.history, r.historyIndex, r.selections)
        /\ internalSelections' = selections'
        /\ activeSelectionId' = NoId
        /\ lastOp' = "reset"
        /\ imageDimensions' = {}
        /\ UNCHANGED <<pendingLoads, clipboard, dragAction, dragStartPoint,
                       initialSelection, loupeVisible, now>>

\* an image is chosen (file input, drop, Drive picker) while none is shown:
\* the read starts, its onload keeps the commitSelections of this render
handleImageUpload ==
    /\ ~imageSrc
    /\ Len(pendingLoads) < MaxPending
    /\ pendingLoads' = Append(pendingLoads,
                              [history |-> history, historyIndex |-> historyIndex])
    /\ lastOp' = "load-request"
    /\ UNCHANGED <<imageSrc, selections, history, historyIndex, imageDimensions,
                   clipboard, internalSelections, gestureVars, now>>

\* reader.onload of the k-th read in flight
onload(k) ==
    LET closure == pendingLoads[k]
        r == commitSelections(<<>>, selections, closure.history,
                              closure.historyIndex, history, historyIndex)
    IN  /\ k \in Indices(pendingLoads)
        /\ imageSrc' = TRUE
        /\ history' = r.history
        /\ historyIndex' = r.historyIndex
        /\ selections' = syncSelections(r.history, r.historyIndex, r.selections)
        /\ internalSelections' = syncInternal(selections', selections, internalSelections)
        /\ pendingLoads' = [j \in 1..(Len(pendingLoads) - 1) |->
                               IF j < k THEN pendingLoads[j] ELSE pendingLoads[j + 1]]
        /\ lastOp' = "load"
        /\ UNCHANGED <<imageDimensions, clipboard, gestureVars, now>>

\* ------------------------------------------------------------------ export
\* Coordinates are real numbers in natural pixels.  A list holds them as
\* integers counting steps of 1 / unit pixel; texts are sequences of
\* characters.

\* Math.round of v / unit: the nearest integer, halves upwards
round(v, unit) == (2 * v + unit) \div (2 * unit)

\* the pixel record of every selection of a list
selectionCoordsOf(list, unit) ==
    [i \in Indices(list) |->
        [id |-> list[i].id,
         locked |-> list[i].locked,
         x |-> round(minX(list[i]), unit),
         y |-> round(minY(list[i]), unit),
         width |-> round(width(list[i]), unit),
         height |-> round(height(list[i]), unit)]]

Digit(d) ==
    CASE d = 0 -> "0" [] d = 1 -> "1" [] d = 2 -> "2" [] d = 3 -> "3"
      [] d = 4 -> "4" [] d = 5 -> "5" [] d = 6 -> "6" [] d = 7 -> "7"
      [] d = 8 -> "8" [] OTHER -> "9"

\* the decimal digits of n >= 0, without leading zeros
RECURSIVE decimal(_)
decimal(n) == IF n < 10 THEN <<Digit(n)>> ELSE Append(decimal(n \div 10), Digit(n % 10))

\* the last k decimal digits of n >= 0, zeros included
RECURSIVE lastDigits(_, _)
lastDigits(n, k) ==
    IF k = 0 THEN <<>> ELSE Append(lastDigits(n \div 10, k - 1), Digit(n % 10))

\* (variant: the digits beyond the sixth are cut off)
toFixed6_Truncated(num, den) ==
    LET millionths == (num * 1000000) \div den
    IN  decimal(millionths \div 1000000) \o <<".">> \o lastDigits(millionths % 1000000, 6)
\* (num / den).toFixed(6) for num >= 0, den > 0: the nearest multiple of
\* 10^-6, the larger one of two, with all six decimals
toFixed6(num, den) ==
    LET millionths == (2 * num * 1000000 + den) \div (2 * den)
    IN  decimal(millionths \div 1000000) \o <<".">> \o lastDigits(millionths % 1000000, 6)

\* the line of one pixel record:
\* x_center = (x + width / 2) / naturalWidth, width / naturalWidth, ...
yoloLine(coords, dims) ==
    <<"0", " ">> \o toFixed6(2 * coords.x + coords.width, 2 * dims.naturalWidth)
        \o <<" ">> \o toFixed6(2 * coords.y + coords.height, 2 * dims.naturalHeight)
        \o <<" ">> \o toFixed6(coords.width, dims.naturalWidth)
        \o <<" ">> \o toFixed6(coords.height, dims.naturalHeight)

\* lines.join('\n')
RECURSIVE join(_)
join(lines) ==
    IF Len(lines) = 0 THEN <<>>
    ELSE IF Len(lines) = 1 THEN lines[1]
    ELSE lines[1] \o <<"\n">> \o join(Tail(lines))

\* (variant: the dimensions are not asked for, the natural size is taken)
yoloStringOf_AnyDimensions(coordsList, dimensions) ==
    IF Len(coordsList) > 0
    THEN LET Qualifies(coords) == coords.width > 0 /\ coords.height > 0
             kept == SelectSeq(coordsList, Qualifies)
         IN  {join([i \in Indices(kept) |-> yoloLine(kept[i], naturalSize)])}
    ELSE {}
\* the memo yoloString: {} is null, {text} a string
yoloStringOf(coordsList, dimensions) ==
    IF Len(coordsList) > 0 /\ dimensions # {}
    THEN LET Qualifies(coords) == coords.width > 0 /\ coords.height > 0
             kept == SelectSeq(coordsList, Qualifies)
         IN  {join([i \in Indices(kept) |-> yoloLine(kept[i], TheOne(dimensions))])}
    ELSE {}

\* the memos of a render whose store counts steps of 1 / unit pixel
selectionCoords(unit) == selectionCoordsOf(selections, unit)
yoloString(unit) == yoloStringOf(selectionCoords(unit), imageDimensions)

\* the Copy button: a null or empty text is not copied
handleCopy(unit) ==
    /\ IF yoloString(unit) # {} /\ yoloString(unit) # {<<>>}
       THEN clipboard' = yoloString(unit)
       ELSE clipboard' = clipboard
    /\ lastOp' = "copy"
    /\ UNCHANGED <<imageSrc, selections, history, historyIndex, pendingLoads,
                   imageDimensions, internalSelections, gestureVars, now>>

\* the load event of the img element: the image has been decoded and has its
\* natural size, which handleImageLoad reports to App
handleImageLoad ==
    /\ imageSrc
    /\ imageDimensions' = {naturalSize}
    /\ lastOp' = "image-load"
    /\ UNCHANGED <<imageSrc, selections, history, historyIndex, pendingLoads,
                   clipboard, internalSelections, gestureVars, now>>

\* ------------------------------------------------------------ specifications
\* Spec is the App component: its callbacks are called in any order, and
\* onSelectionsChange receives any short list of boxes, as ImageSelector hands
\* over at the end of a gesture.
\* SpecGesture is ImageSelector on top of App: every pointer position of the
\* image, every press, move and release, committed through commitSelections.

\* the boxes handed to App in Spec, each id with a width of its own
Boxes ==
    {[id |-> i, start |-> Point(0, 0), end |-> Point(i + 1, 2), locked |-> l] :
        i \in 1..MaxListLen, l \in BOOLEAN}

Lists ==
    {<<>>} \cup {<<b>> : b \in Boxes}
           \cup {<<a, b>> : a \in {c \in Boxes : c.id = 1},
                            b \in {c \in Boxes : c.id = 2}}

\* onSelectionsChange(list) from ImageSelector
onSelectionsChange(list) ==
    /\ imageSrc
    /\ Commit(list)
    /\ lastOp' = "commit"
    /\ UNCHANGED <<imageSrc, pendingLoads, imageDimensions, clipboard,
                   gestureVars, now>>

\* the commit of next leaves the history within MaxHistory snapshots
Fits(next) ==
    Len(commitSelections(next, selections, history, historyIndex,
                         history, historyIndex).history) <= MaxHistory

SelectionsChange == \E list \in Lists : Fits(list) /\ onSelectionsChange(list)
Undo == handleUndo
Redo == handleRedo
ToggleLock ==
    \E id \in ids(selections) : Fits(toggled(selections, id)) /\ handleToggleLock(id)
DeleteSelection ==
    \E id \in ids(selections) : Fits(deleted(selections, id)) /\ handleDeleteSelection(id)
ClearAll == Fits(<<>>) /\ onClearAll
Reset == handleReset
ImageUpload == handleImageUpload
ImageLoaded == \E k \in 1..MaxPending : onload(k)
\* the load event of the image shown, once per image
ImageDecoded == imageDimensions = {} /\ handleImageLoad

Next ==
    \/ SelectionsChange
    \/ Undo
    \/ Redo
    \/ ToggleLock
    \/ DeleteSelection
    \/ ClearAll
    \/ Reset
    \/ ImageUpload
    \/ ImageLoaded
    \/ ImageDecoded

Spec == Init /\ [][Next]_vars

\* a gesture is started only while the history has room for its commit
Room == historyIndex + 1 < MaxHistory

PointerDown ==
    /\ Room
    /\ Len(internalSelections) < MaxSelections
    /\ \E point \in getRelativeCoords : handlePointerDown(point)
SelectionMouseDown ==
    /\ Room
    /\ \E point \in getRelativeCoords : handleSelectionMouseDown(point)
ResizeHandleDown ==
    /\ Room
    /\ \E i \in Indices(internalSelections), action \in ResizeActions,
          point \in getRelativeCoords : handleResizeHandleDown(i, action, point)
MouseMove == \E point \in getRelativeCoords : handleMouseMove(point)
DragEnd == handleDragEnd
FirstImageUpload == Len(pendingLoads) = 0 /\ handleImageUpload
FirstImageLoaded == onload(1)

NextGesture ==
    \/ PointerDown
    \/ SelectionMouseDown
    \/ ResizeHandleDown
    \/ MouseMove
    \/ DragEnd
    \/ FirstImageUpload
    \/ FirstImageLoaded
    \/ ImageDecoded

SpecGesture == Init /\ [][NextGesture]_vars

\* SpecLock is ImageSelector on top of App with the lock button: one selection
\* is drawn, and once the lock has been used it is pressed, dragged, released
\* and toggled in any order.
RoomLock == historyIndex + 1 < MaxLockHistory

\* some snapshot of the history holds a locked selection
lockUsed ==
    \E k \in DOMAIN history : \E i \in Indices(history[k]) : history[k][i].locked

LockDraw ==
    /\ Len(history) = 1
    /\ Len(internalSelections) < MaxSelections
    /\ \E point \in getRelativeCoords : handlePointerDown(point)
LockSelectionMouseDown ==
    \E point \in getRelativeCoords :
        /\ pressTarget(point) # 0
        /\ \/ internalSelections[pressTarget(point)].locked
           \/ RoomLock /\ lockUsed
        /\ handleSelectionMouseDown(point)
LockResizeHandleDown ==
    \E i \in Indices(internalSelections), action \in ResizeActions,
       point \in getRelativeCoords :
        /\ \/ internalSelections[i].locked
           \/ RoomLock /\ lockUsed
        /\ handleResizeHandleDown(i, action, point)
LockToggle ==
    /\ RoomLock
    /\ \E id \in ids(selections) : handleToggleLock(id)

NextLock ==
    \/ LockDraw
    \/ LockSelectionMouseDown
    \/ LockResizeHandleDown
    \/ LockToggle
    \/ MouseMove
    \/ DragEnd
    \/ FirstImageUpload
    \/ FirstImageLoaded
    \/ ImageDecoded

SpecLock == Init /\ [][NextLock]_vars

\* SpecPair is ImageSelector on top of App from the moment an image is shown
\* and selections have been drawn: either one selection over the left of the
\* image, or that selection widened to the whole image after a second one was
\* drawn from the top right corner leftwards, so that the later one lies
\* inside the earlier one.  Presses on the image and on selection bodies,
\* moves and releases follow, up to the first commit (the resize handles are
\* exercised in SpecGesture).
firstBox == [id |-> 0, start |-> Point(0, 0), end |-> Point(2, ImageHeight), locked |-> FALSE]
secondBox == [id |-> 1, start |-> Point(ImageWidth, 0), end |-> Point(1, ImageHeight), locked |-> FALSE]
wideBox == [firstBox EXCEPT !.end = Point(ImageWidth, ImageHeight)]

PairHistories ==
    {<< <<>>, <<firstBox>> >>,
     << <<>>, <<firstBox>>, <<firstBox, secondBox>>, <<wideBox, secondBox>> >>}

InitPair ==
    /\ imageSrc = TRUE
    /\ history \in PairHistories
    /\ historyIndex = Len(history) - 1
    /\ selections = history[Len(history)]
    /\ pendingLoads = <<>>
    /\ imageDimensions = {naturalSize}
    /\ clipboard = {}
    /\ internalSelections = selections
    /\ dragAction = "null"
    /\ dragStartPoint = {}
    /\ activeSelectionId = 0
    /\ initialSelection = {}
    /\ loupeVisible = FALSE
    /\ now = 2
    /\ lastOp = "release"

\* presses are made until the first commit
RoomPair == history \in PairHistories

PairPointerDown ==
    /\ RoomPair
    /\ Len(internalSelections) < MaxPairSelections
    /\ \E point \in getRelativeCoords : handlePointerDown(point)
PairSelectionMouseDown ==
    /\ RoomPair
    /\ \E point \in getRelativeCoords : handleSelectionMouseDown(point)

TouchCancel == touchcancel

NextPair ==
    \/ PairPointerDown
    \/ PairSelectionMouseDown
    \/ MouseMove
    \/ DragEnd
    \/ TouchCancel

SpecPair == InitPair /\ [][NextPair]_vars

\* SpecExport is the export of App: the store holds any one box with corners
\* on the grid of 1 / Subpixel pixel, stored from either corner and large
\* enough to pass the filter of handleDragEnd, alone or followed by a second
\* box; the text is copied, selections are deleted, undone and redone.
ExportPoints ==
    {Point(px, py) : px \in 0..(ImageWidth * Subpixel),
                     py \in 0..(ImageHeight * Subpixel)}

ExportBoxes ==
    {b \in [id : {1}, start : ExportPoints, end : ExportPoints, locked : {FALSE}] :
        width(b) > Subpixel /\ height(b) > Subpixel}

secondExportBoxes ==
    {[id |-> 2, start |-> Point(ImageWidth * Subpixel, ImageHeight * Subpixel),
      end |-> Point(1, 0), locked |-> l] : l \in BOOLEAN}

ExportLists ==
    {<<>>} \cup {<<a>> : a \in ExportBoxes}
           \cup {<<a, b>> : a \in ExportBoxes, b \in secondExportBoxes}

InitExport ==
    /\ imageSrc = TRUE
    /\ selections \in ExportLists
    /\ history = IF selections = <<>> THEN << <<>> >> ELSE << <<>>, selections >>
    /\ historyIndex = Len(history) - 1
    /\ pendingLoads = <<>>
    /\ imageDimensions = {naturalSize}
    /\ clipboard = {}
    /\ internalSelections = selections
    /\ dragAction = "null"
    /\ dragStartPoint = {}
    /\ activeSelectionId = NoId
    /\ initialSelection = {}
    /\ loupeVisible = FALSE
    /\ now = 0
    /\ lastOp = "release"

Copy == handleCopy(Subpixel)

NextExport ==
    \/ Copy
    \/ DeleteSelection
    \/ Undo
    \/ Redo

SpecExport == InitExport /\ [][NextExport]_vars

\* SpecIds is ImageSelector on top of App from the moment the first image is
\* decoded, with the clock of Date.now(): selections are drawn one after the
\* other while the milliseconds pass, or do not.
InitIds ==
    /\ imageSrc = TRUE
    /\ selections = <<>>
    /\ history = << <<>> >>
    /\ historyIndex = 0
    /\ pendingLoads = <<>>
    /\ imageDimensions = {naturalSize}
    /\ clipboard = {}
    /\ internalSelections = <<>>
    /\ dragAction = "null"
    /\ dragStartPoint = {}
    /\ activeSelectionId = NoId
    /\ initialSelection = {}
    /\ loupeVisible = FALSE
    /\ now = 0
    /\ lastOp = "image-load"

\* a millisecond passes
Tick ==
    /\ now < MaxNow
    /\ now' = now + 1
    /\ UNCHANGED <<appVars, internalSelections, gestureVars, lastOp>>

IdsPointerDown ==
    /\ Room
    /\ Len(internalSelections) < MaxPairSelections
    /\ \E point \in getRelativeCoords : handlePointerDown(point)

NextIds ==
    \/ IdsPointerDown
    \/ MouseMove
    \/ DragEnd
    \/ Tick

SpecIds == InitIds /\ [][NextIds]_vars

\* ------------------------------------------------------------------ claims
\* the handlers that call commitSelections
CommitOps == {"commit", "toggle", "delete", "clear", "load", "release"}

\* C1: in every reachable state the history is not empty and the cursor is an
\* index of it: 0 <= historyIndex < history.length.
C1_CursorInHistory ==
    /\ Len(history) >= 1
    /\ historyIndex >= 0
    /\ historyIndex < Len(history)

\* an undo has moved the cursor off the last of three snapshots
C1_Witness ==
    /\ lastOp = "undo"
    /\ Len(history) = MaxHistory
    /\ historyIndex = 1

\* C2: after every operation the committed store is the snapshot at the cursor.
C2_StoreIsSnapshotAtCursor ==
    /\ historyIndex + 1 \in DOMAIN history
    /\ selections = history[historyIndex + 1]

\* an undo has brought back a non-empty snapshot that is not the last one
C2_Witness ==
    /\ lastOp = "undo"
    /\ selections # <<>>
    /\ selections # history[Len(history)]

InBounds(s) ==
    /\ minX(s) >= 0 /\ maxX(s) <= ImageWidth
    /\ minY(s) >= 0 /\ maxY(s) <= ImageHeight

AllBoxes(list, P(_)) == \A i \in Indices(list) : P(list[i])

\* C3: every selection of the committed store and of every history snapshot is
\* wider and taller than 1 and lies inside [0, imageWidth] x [0, imageHeight].
C3_CommittedBoxesValid ==
    LET Valid(s) == width(s) > 1 /\ height(s) > 1 /\ InBounds(s)
    IN  /\ AllBoxes(selections, Valid)
        /\ \A k \in DOMAIN history : AllBoxes(history[k], Valid)

\* the frozen snapshot of the running gesture
init == TheOne(initialSelection)

\* C4: when a move gesture that has translated an unlocked selection is
\* released, the committed selection has the width and height it had when the
\* gesture began and lies inside the image.
C4_MoveKeepsSizeInBounds ==
    [][(/\ dragAction = "move" /\ lastOp = "move" /\ initialSelection # {}
        /\ ~init.locked
        /\ dragAction' = "null")
       => \A i \in Indices(selections') :
              selections'[i].id = activeSelectionId
              => /\ width(selections'[i]) = width(init)
                 /\ height(selections'[i]) = height(init)
                 /\ InBounds(selections'[i])]_vars

\* the three edges a resize on one edge leaves where the normalized
\* pre-gesture rectangle has them
Frame(s, pre, action) ==
    CASE action = "n-resize" ->
             minX(s) = minX(pre) /\ maxX(s) = maxX(pre) /\ maxY(s) = maxY(pre)
      [] action = "s-resize" ->
             minX(s) = minX(pre) /\ maxX(s) = maxX(pre) /\ minY(s) = minY(pre)
      [] action = "w-resize" ->
             minY(s) = minY(pre) /\ maxY(s) = maxY(pre) /\ maxX(s) = maxX(pre)
      [] action = "e-resize" ->
             minY(s) = minY(pre) /\ maxY(s) = maxY(pre) /\ minX(s) = minX(pre)
      [] OTHER -> TRUE

\* C5: after every move event of a resize gesture on edge E, the opposite
\* edge and both edges of the other axis of the resized selection are those of
\* the normalized pre-gesture rectangle, and a release that keeps the
\* selection commits it with these coordinates.
C5_ResizeMovesOneEdge ==
    /\ [](dragAction \in ResizeActions /\ initialSelection # {} /\ lastOp = "move"
          => LET k == findIndex(internalSelections, activeSelectionId)
             IN  k # 0 => Frame(internalSelections[k], init, dragAction))
    /\ [][(/\ dragAction \in ResizeActions /\ initialSelection # {}
           /\ lastOp = "move"
           /\ dragAction' = "null")
          => LET k == findIndex(internalSelections, activeSelectionId)
             IN  k # 0 /\ keepOnRelease(internalSelections[k])
                 => \E i \in Indices(selections') :
                        /\ selections'[i] = internalSelections[k]
                        /\ Frame(selections'[i], init, dragAction)]_vars

\* the north edge of a committed selection drawn bottom-up has been dragged
C5_Witness ==
    /\ dragAction = "n-resize"
    /\ lastOp = "move"
    /\ initialSelection # {}
    /\ selections # <<>>
    /\ selections[1].start.y > selections[1].end.y
    /\ \E i \in Indices(internalSelections) :
           /\ internalSelections[i].id = activeSelectionId
           /\ minY(internalSelections[i]) # minY(init)

UndoOps == {"undo", "undo-noop"}
RedoOps == {"redo", "redo-noop"}

\* the cursor and the store a redo issued with history h, cursor i and store
\* sel leaves
redone(h, i, sel) ==
    [historyIndex |-> redoIndex(h, i),
     selections |-> syncSelections(h, redoIndex(h, i), sel)]

\* what handleRedo does is redone
RedoIsRedone ==
    [][lastOp' \in RedoOps
       => /\ historyIndex' = redone(history, historyIndex, selections).historyIndex
          /\ selections' = redone(history, historyIndex, selections).selections
          /\ history' = history]_vars

\* redo right after a push of a new snapshot changes neither cursor nor store
RedoAfterPushIsNoOp ==
    [][lastOp' \in CommitOps /\ history' # history
       => /\ redone(history', historyIndex', selections').historyIndex = historyIndex'
          /\ redone(history', historyIndex', selections').selections = selections']_vars

\* C6 as stated: a redo issued right after any undo, one issued at cursor 0
\* included, restores the store and the cursor of before the undo, and a redo
\* right after a fresh push is a no-op.
C6_UndoRedoRestores ==
    /\ [][lastOp' \in UndoOps
          => /\ redone(history', historyIndex', selections').historyIndex = historyIndex
             /\ redone(history', historyIndex', selections').selections = selections]_vars
    /\ RedoIsRedone
    /\ RedoAfterPushIsNoOp

\* C6 amended: a redo issued right after an undo that moved the cursor
\* (cursor > 0) restores the store and the cursor of before the undo, and a
\* redo right after a fresh push is a no-op.
C6_UndoRedoRestoresWhenUndoable ==
    /\ [][lastOp' = "undo"
          => /\ redone(history', historyIndex', selections').historyIndex = historyIndex
             /\ redone(history', historyIndex', selections').selections = selections]_vars
    /\ RedoIsRedone
    /\ RedoAfterPushIsNoOp

\* a redo has brought back the newest snapshot (only an undo with no push
\* after it leaves anything to redo)
C6_Witness ==
    /\ lastOp = "redo"
    /\ historyIndex = Len(history) - 1
    /\ selections # <<>>

\* C7: a commit of a snapshot equal to the history entry at the cursor leaves
\* the history and the cursor as they are, after an undo too.
C7_EqualPushIsIdempotent ==
    [][lastOp' \in CommitOps /\ selections' = history[historyIndex + 1]
       => history' = history /\ historyIndex' = historyIndex]_vars

\* a commit that pushed nothing, with the cursor behind the newest snapshot
C7_Witness ==
    /\ lastOp = "commit"
    /\ historyIndex < Len(history) - 1
    /\ selections # <<>>

\* C8: a commit of a snapshot that differs from the entry at the cursor leaves
\* the entries 0..cursor as they are, drops the entries after the cursor,
\* appends the snapshot and moves the cursor to the new last index.
C8_PushTruncatesAndAppends ==
    [][lastOp' \in CommitOps /\ selections' # history[historyIndex + 1]
       => /\ history' = Append(SubSeq(history, 1, historyIndex + 1), selections')
          /\ historyIndex' = Len(history') - 1]_vars

\* C9: undo leaves the cursor at 0 and otherwise lowers it by 1, redo leaves
\* the cursor at the last index and otherwise raises it by 1, neither changes
\* the history, and canUndo is cursor > 0, canRedo is cursor < length - 1.
C9_UndoRedoStepByOne ==
    /\ [][/\ lastOp' \in UndoOps
             => /\ history' = history
                /\ historyIndex' = IF historyIndex = 0 THEN 0 ELSE historyIndex - 1
          /\ lastOp' \in RedoOps
             => /\ history' = history
                /\ historyIndex' = IF historyIndex = Len(history) - 1
                                   THEN historyIndex ELSE historyIndex + 1]_vars
    /\ [](/\ canUndo <=> historyIndex > 0
          /\ canRedo <=> historyIndex < Len(history) - 1)

\* an undo at cursor 0 with snapshots ahead did nothing
C9_Witness ==
    /\ lastOp = "undo-noop"
    /\ historyIndex = 0
    /\ Len(history) > 1
    /\ ~canUndo /\ canRedo

\* C10: after Remove Image the history is one empty snapshot, the cursor is 0
\* and the store is empty.
C10_ResetLeavesOneEmptySnapshot ==
    lastOp = "reset"
    => /\ history = << <<>> >>
       /\ historyIndex = 0
       /\ selections = <<>>
       /\ ~imageSrc

\* Remove Image was pressed while an image read was still in flight
C10_Witness ==
    /\ lastOp = "reset"
    /\ pendingLoads # <<>>

\* C11: an image load and Clear All each leave the history as one empty
\* snapshot with the cursor at 0, so that neither undo nor redo is available.
C11_LoadAndClearResetHistory ==
    [][lastOp' \in {"load", "clear"}
       => /\ history' = << <<>> >>
          /\ historyIndex' = 0
          /\ ~canUndoAt(historyIndex')
          /\ ~canRedoAt(history', historyIndex')]_vars

\* every selection on screen is locked / unlocked
allLocked == internalSelections # <<>> /\ \A i \in Indices(internalSelections) : internalSelections[i].locked
noneLocked == internalSelections # <<>> /\ \A i \in Indices(internalSelections) : ~internalSelections[i].locked

\* the presses that land on a selection: on its body, on one of its handles
SelectionPresses == {"press-box", "press-handle"}

\* C12: a press on the body or a handle of a locked selection changes neither
\* the gesture state nor any list; move and release events leave every locked
\* selection as it is, in the transient list and in the store; a press on the
\* body or a handle of an unlocked selection while idle starts a gesture on it.
C12_LockedIsInert ==
    /\ [][lastOp' \in SelectionPresses /\ allLocked
          => UNCHANGED <<gestureVars, internalSelections, appVars>>]_vars
    /\ [][lastOp' \in {"move", "release"}
          => /\ \A i \in Indices(internalSelections) :
                    internalSelections[i].locked
                    => /\ i \in Indices(internalSelections')
                       /\ internalSelections'[i] = internalSelections[i]
             /\ \A i \in Indices(selections) :
                    selections[i].locked
                    => /\ i \in Indices(selections')
                       /\ selections'[i] = selections[i]]_vars
    /\ [][lastOp' \in SelectionPresses /\ noneLocked /\ dragAction = "null"
          => /\ dragAction' \in {"move"} \cup ResizeActions
             /\ initialSelection' # {}
             /\ activeSelectionId' \in ids(internalSelections)]_vars

\* the history shows a locked selection, then the same selection unlocked,
\* then that selection moved or resized by a gesture that has just been released
C12_Witness ==
    /\ lastOp = "release"
    /\ \E k \in DOMAIN history :
           /\ k + 2 \in DOMAIN history
           /\ Len(history[k]) = 1 /\ Len(history[k + 1]) = 1 /\ Len(history[k + 2]) = 1
           /\ history[k][1].locked
           /\ history[k + 1][1] = [history[k][1] EXCEPT !.locked = FALSE]
           /\ ~history[k + 2][1].locked
           /\ history[k + 2][1].id = history[k][1].id
           /\ history[k + 2][1].start # history[k][1].start

\* the step added exactly one snapshot, the new store, right after the old
\* cursor, and an undo from there gives back the old store
OneEntryThatUndoReverts ==
    /\ history' = Append(SubSeq(history, 1, historyIndex + 1), selections')
    /\ historyIndex' = historyIndex + 1
    /\ undoIndex(historyIndex') = historyIndex
    /\ history'[undoIndex(historyIndex') + 1] = selections

\* C13: toggle-lock(id) flips the locked flag of the selection with that id and
\* nothing else, delete(id) removes the selection with that id and nothing
\* else, whether it is locked or not; the other selections keep their content
\* and order; each is one new history entry that undo reverts.
C13_DeleteAndToggleById ==
    /\ [][lastOp' = "toggle"
          => /\ \E id \in ids(selections) :
                    /\ Len(selections') = Len(selections)
                    /\ \A i \in Indices(selections) :
                           selections'[i] =
                               IF selections[i].id = id
                               THEN [id |-> id,
                                     start |-> selections[i].start,
                                     end |-> selections[i].end,
                                     locked |-> ~selections[i].locked]
                               ELSE selections[i]
             /\ OneEntryThatUndoReverts]_vars
    /\ [][lastOp' = "delete"
          => /\ \E id \in ids(selections) :
                    /\ ids(selections') = ids(selections) \ {id}
                    /\ Len(selections') =
                           Cardinality({i \in Indices(selections) : selections[i].id # id})
                    /\ \A i, j \in Indices(selections') :
                           i < j => \E p, q \in Indices(selections) :
                                        /\ p < q
                                        /\ selections[p] = selections'[i]
                                        /\ selections[q] = selections'[j]
                    /\ \A i \in Indices(selections') :
                           \E p \in Indices(selections) : selections[p] = selections'[i]
             /\ OneEntryThatUndoReverts]_vars

\* a locked selection has just been deleted from a store of two, and the
\* other one, unlocked, is what is left
C13_Witness ==
    /\ lastOp = "delete"
    /\ historyIndex >= 1
    /\ Len(history[historyIndex]) = 2
    /\ Len(selections) = 1
    /\ ~selections[1].locked
    /\ \E i \in Indices(history[historyIndex]) :
           /\ history[historyIndex][i].locked
           /\ history[historyIndex][i].id \notin ids(selections)

\* the box of the gesture in the transient list is a point
activeIsPoint ==
    \E i \in Indices(internalSelections) :
        /\ internalSelections[i].id = activeSelectionId
        /\ internalSelections[i].start = internalSelections[i].end

\* C14: the release of a draw gesture whose box has start = end adds no
\* selection to the committed store and creates no history entry: store,
\* history and cursor are what they were.
C14_DegenerateDrawCommitsNothing ==
    [][(dragAction = "draw" /\ activeIsPoint /\ lastOp' = "release")
       => /\ selections' = selections
          /\ history' = history
          /\ historyIndex' = historyIndex]_vars

\* the boxes on screen that lie over point p, by index in the transient list
boxesOver(p) ==
    {i \in Indices(internalSelections) :
        rendered(internalSelections[i]) /\ containsPoint(internalSelections[i], p)}

\* box inner lies inside box outer
containedIn(inner, outer) ==
    /\ minX(outer) <= minX(inner) /\ maxX(inner) <= maxX(outer)
    /\ minY(outer) <= minY(inner) /\ maxY(inner) <= maxY(outer)

\* C15: hit-testing is topmost-wins: a press on a point that lies in several
\* selections targets the one latest in list order; for two boxes where the
\* later one lies inside the earlier one, a press inside the overlap makes the
\* later one the active box and the frozen snapshot of the gesture.
C15_TopmostWins ==
    [][(lastOp' = "press-box" /\ noneLocked)
       => LET p == TheOne(dragStartPoint')
          IN  /\ dragStartPoint' # {}
              /\ boxesOver(p) # {}
              /\ \E i \in boxesOver(p) :
                     /\ \A j \in boxesOver(p) : j <= i
                     /\ activeSelectionId' = internalSelections[i].id
                     /\ initialSelection' = {internalSelections[i]}
              /\ \A i, j \in boxesOver(p) :
                     (/\ i < j
                      /\ containedIn(internalSelections[j], internalSelections[i])
                      /\ \A k \in boxesOver(p) : k <= j)
                     => activeSelectionId' = internalSelections[j].id]_vars

\* a press inside the later box, which lies inside the earlier one, has made
\* the later box the active one
C15_Witness ==
    /\ lastOp = "press-box"
    /\ internalSelections = <<wideBox, secondBox>>
    /\ containedIn(secondBox, wideBox)
    /\ \E p \in dragStartPoint :
           containsPoint(wideBox, p) /\ containsPoint(secondBox, p)
    /\ activeSelectionId = secondBox.id
    /\ initialSelection = {secondBox}

\* the press events: on the image, on a selection body, on a resize handle
Presses == {"press"} \cup SelectionPresses

\* C16: while a gesture is active another press neither starts a second
\* gesture nor affects the current one: drag action, active target, frozen
\* snapshot and transient list stay as they are.
C16_StrayPressIgnored ==
    [][(dragAction # "null" /\ lastOp' \in Presses)
       => UNCHANGED <<dragAction, activeSelectionId, initialSelection,
                      internalSelections>>]_vars

\* C17: a move or release event that arrives while no gesture is active is a
\* no-op: transient list, committed store, history, cursor and gesture state
\* are unchanged.
C17_IdleMoveAndReleaseAreNoOps ==
    [][(dragAction = "null" /\ lastOp' \in {"move", "release"})
       => UNCHANGED <<internalSelections, selections, history, historyIndex,
                      gestureVars>>]_vars

\* a move event has arrived with no gesture active, a committed box on screen
\* and that box the active one
C17_Witness ==
    /\ lastOp = "move"
    /\ dragAction = "null"
    /\ selections # <<>>
    /\ internalSelections = selections
    /\ activeSelectionId \in ids(internalSelections)

\* C18: a press while the image has zero natural width or height is rejected:
\* the transient list is unchanged and no gesture starts.
C18_ZeroSizePressRejected ==
    [][(imageDimensions = {} /\ lastOp' \in Presses)
       => UNCHANGED <<internalSelections, gestureVars>>]_vars

\* reading a text back: the pieces between separators, the number a run of
\* digits stands for
RECURSIVE split(_, _)
split(text, sep) ==
    LET hits == {k \in 1..Len(text) : text[k] = sep}
    IN  IF hits = {} THEN <<text>>
        ELSE LET k == CHOOSE h \in hits : \A g \in hits : h <= g
             IN  <<SubSeq(text, 1, k - 1)>> \o split(SubSeq(text, k + 1, Len(text)), sep)

Digits == {Digit(d) : d \in 0..9}
digitValue(c) == CHOOSE d \in 0..9 : Digit(d) = c
RECURSIVE number(_)
number(s) ==
    IF s = <<>> THEN 0
    ELSE 10 * number(SubSeq(s, 1, Len(s) - 1)) + digitValue(s[Len(s)])

\* field is a number printed with six decimals: digits, a point, six digits
sixDecimals(field) ==
    /\ Len(field) >= 8
    /\ field[Len(field) - 6] = "."
    /\ \A k \in 1..Len(field) : k # Len(field) - 6 => field[k] \in Digits
    /\ (Len(field) > 8 => field[1] # "0")

\* what a field printed with six decimals stands for, in millionths
millionths(field) ==
    number(SubSeq(field, 1, Len(field) - 7)) * 1000000
        + number(SubSeq(field, Len(field) - 5, Len(field)))

\* field prints num / den with six decimals: no other multiple of 10^-6 is
\* nearer to num / den
prints(field, num, den) ==
    /\ sixDecimals(field)
    /\ 2 * Abs(millionths(field) * den - num * 1000000) <= den

\* line is "0 xc yc w h" for the pixel record coords in an image W x H
isLineOf(line, coords, W, H) ==
    LET field == split(line, " ")
    IN  /\ Len(field) = 5
        /\ field[1] = <<"0">>
        /\ prints(field[2], 2 * coords.x + coords.width, 2 * W)
        /\ prints(field[3], 2 * coords.y + coords.height, 2 * H)
        /\ prints(field[4], coords.width, W)
        /\ prints(field[5], coords.height, H)

\* the same box stored from the opposite corner
swapped(s) == [s EXCEPT !.start = s.end, !.end = s.start]

\* n is v / unit rounded to an integer
isRounded(n, v, unit) == 2 * Abs(n * unit - v) <= unit

\* the box of 200 x 100 pixels at (100, 50) in an image of 1000 x 500
exampleBox == [id |-> 1, start |-> Point(100, 50), end |-> Point(300, 150), locked |-> FALSE]
exampleDimensions == {[naturalWidth |-> 1000, naturalHeight |-> 500]}
exampleText ==
    <<"0", " ", "0", ".", "2", "0", "0", "0", "0", "0",
      " ", "0", ".", "2", "0", "0", "0", "0", "0", " ",
      "0", ".", "2", "0", "0", "0", "0", "0", " ", "0",
      ".", "2", "0", "0", "0", "0", "0">>

\* C19: with the image size W x H known, each exported line is "0 xc yc w h"
\* with xc = (x + width/2)/W, yc = (y + height/2)/H, w = width/W, h = height/H
\* printed with six decimals, where x, y, width, height are the top-left
\* corner and the size of the normalized box rounded to integers, whichever
\* corner is stored as start; the box of 200 x 100 at (100, 50) in an image of
\* 1000 x 500 gives "0 0.200000 0.200000 0.200000 0.200000".
C19_ExportLine ==
    /\ \A text \in yoloString(Subpixel) :
           LET line == split(text, "\n")
               coords == selectionCoords(Subpixel)
           IN  /\ Len(line) = Len(selections)
               /\ \A i \in Indices(selections) :
                      /\ isRounded(coords[i].x, minX(selections[i]), Subpixel)
                      /\ isRounded(coords[i].y, minY(selections[i]), Subpixel)
                      /\ isRounded(coords[i].width,
                                   maxX(selections[i]) - minX(selections[i]), Subpixel)
                      /\ isRounded(coords[i].height,
                                   maxY(selections[i]) - minY(selections[i]), Subpixel)
                      /\ isLineOf(line[i], coords[i], ImageWidth, ImageHeight)
    /\ yoloStringOf(selectionCoordsOf([i \in Indices(selections) |->
                                          swapped(selections[i])], Subpixel),
                    imageDimensions) = yoloString(Subpixel)
    /\ yoloStringOf(selectionCoordsOf(<<exampleBox>>, 1), exampleDimensions)
           = {exampleText}
    /\ yoloStringOf(selectionCoordsOf(<<swapped(exampleBox)>>, 1), exampleDimensions)
           = {exampleText}

\* the text of a box stored from its bottom right corner, with corners
\* between pixels, has been copied
C19_Witness ==
    /\ lastOp = "copy"
    /\ clipboard # {}
    /\ clipboard = yoloString(Subpixel)
    /\ Len(selections) = 1
    /\ selections[1].start.x > selections[1].end.x
    /\ selections[1].start.y > selections[1].end.y
    /\ selections[1].end.x % Subpixel # 0
    /\ selections[1].start.y % Subpixel # 0

\* the pixel records with non-zero rounded width and height
qualifying(coordsList) ==
    LET NonZero(coords) == coords.width # 0 /\ coords.height # 0
    IN  SelectSeq(coordsList, NonZero)

\* C20: in every reachable state the text export is null exactly when there
\* is no qualifying selection (non-zero rounded width and height) or the image
\* dimensions are unknown; otherwise it has exactly one line per qualifying
\* selection of the store, in list order, joined by newlines.
C20_ExportNullOrOneLineEach ==
    LET q == qualifying(selectionCoords(1))
    IN  /\ yoloString(1) = {} <=> (Len(q) = 0 \/ imageDimensions = {})
        /\ \A text \in yoloString(1) :
               LET line == split(text, "\n")
               IN  /\ Len(line) = Len(q)
                   /\ \A i \in Indices(q) :
                          /\ "\n" \notin {line[i][k] : k \in DOMAIN line[i]}
                          /\ line[i] = yoloLine(q[i], TheOne(imageDimensions))

\* two selections of different widths are in the store of a decoded image:
\* the export has their two lines, which differ, in the order of the store
C20_Witness ==
    /\ imageDimensions # {}
    /\ Len(selections) = 2
    /\ \E text \in yoloString(1) :
           LET line == split(text, "\n")
           IN  /\ Len(line) = 2
               /\ line[1] # line[2]
               /\ isLineOf(line[1], selectionCoords(1)[1], ImageWidth, ImageHeight)
               /\ isLineOf(line[2], selectionCoords(1)[2], ImageWidth, ImageHeight)

\* no two entries of the list share an id
uniqueIds(list) ==
    \A i, j \in Indices(list) : i # j => list[i].id # list[j].id

\* C21: a selection's id never changes after creation, and no two selections
\* of the current list, transient or committed, share an id.
C21_IdsStableAndUnique ==
    /\ [](uniqueIds(internalSelections) /\ uniqueIds(selections))
    /\ [][lastOp' = "move"
          => /\ Len(internalSelections') = Len(internalSelections)
             /\ \A i \in Indices(internalSelections) :
                    internalSelections'[i].id = internalSelections[i].id]_vars
    /\ [][lastOp' = "release"
          => \A i \in Indices(selections') :
                 \E j \in Indices(internalSelections) :
                     /\ selections'[i].id = internalSelections[j].id
                     /\ selections'[i].start = internalSelections[j].start
                     /\ selections'[i].end = internalSelections[j].end]_vars

\* the events that release a gesture: pointer up and touch end, touch cancel
Releases == {"release", "touch-cancel"}

\* C22: every release event received while a gesture is active (pointer up,
\* touch end or touch cancel) ends the gesture in that step: the state is
\* Idle, the filtered transient list is the committed store, and the
\* magnifier is hidden.
C22_ReleaseEndsGesture ==
    [][(dragAction # "null" /\ lastOp' \in Releases)
       => /\ dragAction' = "null"
          /\ selections' = finalSelections(internalSelections)
          /\ ~loupeVisible']_vars

\* C23: on release of any gesture the active target id is cleared: in the
\* Idle state reached after a draw, move or resize no id is held.
C23_ReleaseClearsActiveId ==
    [][(dragAction # "null" /\ lastOp' = "release")
       => activeSelectionId' = NoId]_vars

\* C23 amended: on release of any gesture the active target id is kept: in
\* the Idle state reached after a draw, move or resize the id of the
\* gesture's selection is still held.
C23_ReleaseKeepsActiveId ==
    [][(dragAction # "null" /\ lastOp' = "release")
       => /\ activeSelectionId' = activeSelectionId
          /\ activeSelectionId' # NoId]_vars

\* a gesture on a selection has been released and committed, and the id of
\* that selection is still the active one
C23_Witness ==
    /\ lastOp = "release"
    /\ dragAction = "null"
    /\ Len(history) >= 2
    /\ activeSelectionId \in ids(selections)

\* C24: between the press and the release of a gesture, move events change
\* only the transient list: store, history and cursor are as they were after
\* every frame, so is the gesture state; the press changes none of them
\* either, and the release adds at most one history entry.
C24_FramesTouchOnlyTransientList ==
    /\ [][lastOp' = "move"
          => UNCHANGED <<selections, history, historyIndex, gestureVars>>]_vars
    /\ [][lastOp' \in Presses
          => UNCHANGED <<selections, history, historyIndex>>]_vars
    /\ [][lastOp' = "release"
          => \/ UNCHANGED <<selections, history, historyIndex>>
             \/ /\ history' = Append(SubSeq(history, 1, historyIndex + 1), selections')
                /\ historyIndex' = historyIndex + 1]_vars

\* a frame of a drag has changed the transient list of a store that an
\* earlier gesture had filled, and the store and the history do not show it
C24_Witness ==
    /\ lastOp = "move"
    /\ dragAction # "null"
    /\ Len(history) >= 2
    /\ selections # <<>>
    /\ internalSelections # selections
    /\ \A k \in DOMAIN history : history[k] # internalSelections

\* the entries of list other than those with the given id, in list order
others(list, id) ==
    LET Other(s) == s.id # id
    IN  SelectSeq(list, Other)

\* C25: a draw, move or resize gesture mutates only the selection whose id is
\* the active target: in the list committed at release every other committed
\* selection keeps its id, start, end, locked flag and relative order, and a
\* newly drawn selection is appended last.
C25_GestureMutatesOnlyTarget ==
    [][(dragAction # "null" /\ lastOp' = "release")
       => /\ others(selections', activeSelectionId) = others(selections, activeSelectionId)
          /\ (dragAction = "draw" /\ activeSelectionId \in ids(selections')
                 /\ activeSelectionId \notin ids(selections))
              => selections'[Len(selections')].id = activeSelectionId]_vars

\* (variant: the magnifier is drawn whenever its flag is set)
loupeShown_WhileMoving == loupeVisible /\ imageSrc
\* the condition under which the magnifier is drawn on screen: its flag is
\* set, the img element is mounted, and the gesture is not a move
loupeShown == loupeVisible /\ imageSrc /\ dragAction # "move"

\* C26: the magnifier is on screen only while a selection is being drawn or
\* resized, never in Idle and never in Moving, and a move event, the only
\* event that repositions the magnifier, leaves the committed list, the
\* history and the cursor alone and changes the transient list only as
\* performDrag computes it.
C26_MagnifierOnlyWhileDrawingOrResizing ==
    /\ [](loupeShown => dragAction \in {"draw"} \cup ResizeActions)
    /\ [][lastOp' = "move"
          => /\ UNCHANGED <<selections, history, historyIndex>>
             /\ \E point \in getRelativeCoords :
                    internalSelections' =
                        performDrag(internalSelections, dragAction, dragStartPoint,
                                    activeSelectionId, initialSelection, point)]_vars

\* a box is being moved while the flag of the magnifier is still set, and the
\* magnifier is not drawn
C26_Witness ==
    /\ lastOp = "move"
    /\ dragAction = "move"
    /\ loupeVisible
    /\ ~loupeShown
    /\ internalSelections # selections

\* the box a frame at currentPoint gives the active selection, computed from
\* the frozen snapshot, the start point of the gesture and currentPoint alone
frameOf(action, frozen, startPoint, currentPoint) ==
    LET dx == currentPoint.x - startPoint.x
        dy == currentPoint.y - startPoint.y
    IN  CASE action = "draw" ->
               [frozen EXCEPT !.end = Point(clampX(currentPoint.x), clampY(currentPoint.y))]
          [] action = "move" -> moveSelection(frozen, dx, dy)
          [] OTHER -> resizeSelection(frozen, action, dx, dy)

\* C27: during a draw, a move or a resize the active selection after a move
\* event is a function only of the frozen snapshot, the start point of the
\* gesture and the current pointer point, the other entries stay as they
\* were, and the list committed at release is the filtered transient list:
\* two sequences of move events that end at the same point give the same
\* transient and committed selection.
C27_FrameDependsOnSnapshotAndPoints ==
    /\ [][(lastOp' = "move" /\ dragAction # "null" /\ dragStartPoint # {}
           /\ initialSelection # {}
           /\ findIndex(internalSelections, activeSelectionId) # 0)
          => \E point \in getRelativeCoords :
                internalSelections' =
                    [internalSelections EXCEPT
                        ![findIndex(internalSelections, activeSelectionId)] =
                            frameOf(dragAction, TheOne(initialSelection),
                                    TheOne(dragStartPoint), point)]]_vars
    /\ [][(lastOp' = "release" /\ dragAction # "null")
          => selections' = finalSelections(internalSelections)]_vars

\* a resize is going on and its frozen snapshot is a committed selection
resizingCommitted ==
    /\ dragAction \in ResizeActions
    /\ initialSelection # {}
    /\ \E i \in Indices(selections) : normalizedSelection(selections[i]) = init
    /\ findIndex(internalSelections, activeSelectionId) # 0

\* the box is not inverted, is at least 1 along the axis of the action, and
\* the edge the action drags is on the image
uprightOn(s, action) ==
    /\ s.start.x <= s.end.x
    /\ s.start.y <= s.end.y
    /\ CASE action = "n-resize" ->
                s.end.y - s.start.y >= 1 /\ s.start.y \in 0..ImageHeight
         [] action = "s-resize" ->
                s.end.y - s.start.y >= 1 /\ s.end.y \in 0..ImageHeight
         [] action = "w-resize" ->
                s.end.x - s.start.x >= 1 /\ s.start.x \in 0..ImageWidth
         [] OTHER ->
                s.end.x - s.start.x >= 1 /\ s.end.x \in 0..ImageWidth

C29_ResizeToMinimumDeletes ==
    [][(/\ resizingCommitted
        /\ LET s == internalSelections[findIndex(internalSelections,
                                                  activeSelectionId)]
           IN  width(s) <= 1 \/ height(s) <= 1
        /\ lastOp' = "release")
       => /\ selections' = finalSelections(internalSelections)
          /\ Len(selections') = Len(selections) - 1
          /\ \A i \in Indices(selections') :
                selections'[i] # internalSelections[findIndex(internalSelections,
                                                              activeSelectionId)]
          /\ others(selections', activeSelectionId) = others(selections, activeSelectionId)
          /\ OneEntryThatUndoReverts]_vars

\* a resize has just shrunk the only committed selection to extent 1 and its
\* release has emptied the store in one new history entry
C29_Witness ==
    /\ lastOp = "release"
    /\ dragAction = "null"
    /\ selections = <<>>
    /\ internalSelections = <<>>
    /\ historyIndex >= 2
    /\ historyIndex + 1 = Len(history)
    /\ Len(history[historyIndex]) = 1
    /\ keepOnRelease(history[historyIndex][1])
    /\ history[historyIndex][1].id = activeSelectionId

\* the points of the image that lie in some box of the committed list
committedPoints ==
    {p \in getRelativeCoords :
        \E i \in Indices(selections) : containsPoint(selections[i], p)}

\* the step has appended one new unlocked selection with start = end = p to
\* the transient list and started a draw of it
drawStartedAt(p) ==
    /\ Len(internalSelections') = Len(internalSelections) + 1
    /\ SubSeq(internalSelections', 1, Len(internalSelections)) = internalSelections
    /\ LET new == internalSelections'[Len(internalSelections')]
       IN  /\ new.start = p /\ new.end = p /\ ~new.locked
           /\ activeSelectionId' = new.id
    /\ dragAction' = "draw"

\* C30: a press in Idle at a point that lies (edges included) in no committed
\* box appends exactly one new selection with start = end = point and
\* locked = false to the transient list and enters Drawing with its id
\* active; a press at a point that lies in a committed box creates no
\* selection; in both cases store and history stay as they are.
C30_PressOutsideStartsDraw ==
    [][(dragAction = "null" /\ lastOp' \in Presses)
       => /\ UNCHANGED <<selections, history, historyIndex>>
          /\ \E p \in getRelativeCoords :
                IF p \in committedPoints
                THEN internalSelections' = internalSelections
                ELSE drawStartedAt(p)]_vars

\* C31: whenever no gesture is active the transient list, which is the list
\* rendered and hit-tested, equals the committed store, also after a draw
\* whose box is filtered out as degenerate so that the commit is a no-op.
C31_IdleTransientEqualsStore ==
    dragAction = "null" => internalSelections = selections

\* a move or a resize of a committed selection is going on, the rest of the
\* transient list is the store, the last event was a move, and the active
\* selection is where a move event at the start point of the gesture puts it
backAtStart ==
    LET k == findIndex(internalSelections, activeSelectionId)
    IN  /\ dragAction \in {"move"} \cup ResizeActions
        /\ lastOp = "move"
        /\ initialSelection # {}
        /\ dragStartPoint # {}
        /\ k # 0
        /\ Len(internalSelections) = Len(selections)
        /\ \A i \in Indices(selections) : i # k => internalSelections[i] = selections[i]
        /\ init = IF dragAction = "move" THEN selections[k]
                  ELSE normalizedSelection(selections[k])
        /\ internalSelections[k] =
               frameOf(dragAction, init, TheOne(dragStartPoint), TheOne(dragStartPoint))

\* C32: a move or resize gesture whose pointer is back at the start point of
\* the gesture at release, after at least one move event, leaves the store,
\* the length of the history and the cursor as they were, in whichever order
\* the corners of the selection are stored.
C32_ZeroDisplacementIsNoOp ==
    [][(backAtStart /\ lastOp' = "release")
       => /\ selections' = selections
          /\ Len(history') = Len(history)
          /\ historyIndex' = historyIndex]_vars

====
